---- MODULE Spec2Model ----
(***************************************************************************)
(* Model of tori's browse screen: the BrowseScreen controller with its two *)
(* panes (Playlists, Songs) and its modal dialog, the Songs pane, and the  *)
(* InputModal text dialog.  Strings are sequences of one-character         *)
(* strings; Option<T> is the empty sequence (None) or a one-element        *)
(* sequence (Some(x)).  A handler is an operator from the state record and *)
(* the event to the state record it leaves, with its result (Ok, Err,      *)
(* Panic) and the trace of the calls it made to its collaborators.         *)
(***************************************************************************)
EXTENDS Integers, Sequences, FiniteSets, TLC

VARIABLES
    selected_pane,  \* BrowseScreen.selected_pane : BrowsePane
    modal,          \* BrowseScreen.modal : the dialog's kind and fields
    playlists,      \* BrowseScreen.playlists : PlaylistsPane
    songs,          \* BrowseScreen.songs : SongsPane
    store,          \* the playlist store on disk: a sequence of playlists
    store_ops,      \* how many mutations the store has accepted
    panicked,       \* whether a handler has panicked: the program is over
    return_focus    \* history: which pane was focused when the modal was opened

vars == <<selected_pane, modal, playlists, songs, store, store_ops, panicked,
          return_focus>>

----------------------------------------------------------------------------
(* Bounds of the model.                                                    *)

\* mutations the playlist store accepts before it fails every request
MaxStoreOps == 1

\* characters the text of an InputModal holds at most
MaxInput == 3

\* the width render leaves for the text of an InputModal
ChunkWidth == 3

\* characters the Songs pane's filter holds at most, the sentinel included
MaxFilter == 3

----------------------------------------------------------------------------
(* Option and string helpers.                                              *)

None == <<>>

Some(x) == <<x>>

NL == "\n"

\* the characters a key event can carry in this model
KeyChars == {"c", "/"}

\* the texts a user types into a dialog, and into the Songs pane's filter
DialogTexts == {<<>>, <<"c">>}

FilterTexts == {<<"/">>, <<"/", "c">>}

\* char::to_lowercase on the model's alphabet
LowerChar(c) ==
    CASE c = "G" -> "g" [] c = "C" -> "c" [] c = "A" -> "a" [] c = "B" -> "b"
      [] c = "N" -> "n" [] OTHER -> c

to_lowercase(s) == [i \in 1..Len(s) |-> LowerChar(s[i])]

\* the code point of a character, for String's Ord
CodePoint(c) ==
    CASE c = NL -> 10 [] c = "/" -> 47 [] c = "A" -> 65 [] c = "B" -> 66
      [] c = "C" -> 67 [] c = "G" -> 71 [] c = "N" -> 78 [] c = "a" -> 97
      [] c = "b" -> 98 [] c = "c" -> 99 [] c = "e" -> 101 [] c = "g" -> 103
      [] c = "h" -> 104 [] c = "l" -> 108 [] c = "n" -> 110 [] c = "p" -> 112
      [] c = "r" -> 114 [] c = "y" -> 121 [] OTHER -> 120

\* str::contains
contains(s, sub) ==
    \E i \in 0..(Len(s) - Len(sub)) : SubSeq(s, i + 1, i + Len(sub)) = sub

RECURSIVE trim_end_matches_nl(_)
trim_end_matches_nl(s) ==
    IF Len(s) > 0 /\ s[Len(s)] = NL
    THEN trim_end_matches_nl(SubSeq(s, 1, Len(s) - 1))
    ELSE s

\* a.cmp(b) = Less for strings
RECURSIVE StrLess(_, _)
StrLess(a, b) ==
    IF Len(b) = 0 THEN FALSE
    ELSE IF Len(a) = 0 THEN TRUE
    ELSE IF CodePoint(Head(a)) # CodePoint(Head(b))
         THEN CodePoint(Head(a)) < CodePoint(Head(b))
         ELSE StrLess(Tail(a), Tail(b))

----------------------------------------------------------------------------
(* The playlist store and the player (external collaborators).             *)

Song(title, path, duration) ==
    [title |-> title, path |-> path, duration |-> duration]

\* element i of a Vec, indices from 0 as in the source
At(v, i) == v[i + 1]

InRange(v, i) == i >= 0 /\ i < Len(v)

\* the place of a playlist in the store, None when there is none of that name
StoreFind(st, name) ==
    LET hits == {k \in 1..Len(st) : st[k].name = name}
    IN IF hits = {} THEN None ELSE Some(CHOOSE k \in hits : TRUE)

\* m3u::Parser::all_songs on the playlist's file; a missing file has no songs
StoreSongs(st, name) ==
    LET f == StoreFind(st, name)
    IN IF f = None THEN <<>> ELSE st[f[1]].songs

\* the directory listing the Playlists pane is loaded from
list_playlists(st) == [k \in 1..Len(st) |-> st[k].name]

StorePut(st, name, new_songs) ==
    LET f == StoreFind(st, name)
    IN IF f = None THEN st ELSE [st EXCEPT ![f[1]].songs = new_songs]

RemoveAt(v, i) == SubSeq(v, 1, i) \o SubSeq(v, i + 2, Len(v))

SwapAt(v, i, j) == [v EXCEPT ![i + 1] = v[j + 1], ![j + 1] = v[i + 1]]

\* one collaborator call, as the handlers record it
Call(op, playlist, index, arg) ==
    [op |-> op, playlist |-> playlist, index |-> index, arg |-> arg]

----------------------------------------------------------------------------
(* FilteredList: the visible sequence, its cursor and its sorting method.  *)

SortingMethods == <<"Index", "Title", "Duration">>

\* compare_songs(a, b, method) = Ordering::Less
compare_songs(a, b, method) ==
    CASE method = "Title" -> StrLess(a.title, b.title)
      [] method = "Duration" -> a.duration < b.duration
      [] OTHER -> FALSE

\* the stable sort of the index sequence v by compare_songs on the items
StableSort(v, items, method) ==
    LET n == Len(v)
        less(i, j) == compare_songs(At(items, i), At(items, j), method)
        rank(p) == Cardinality({q \in 1..n :
                       \/ less(v[q], v[p])
                       \/ (~less(v[p], v[q]) /\ q < p)}) + 1
    IN [r \in 1..n |-> v[CHOOSE p \in 1..n : rank(p) = r]]

\* the indices, in order, that pred keeps: pred maps each index to a Boolean
FilterIndices(pred) ==
    LET keep == {i \in DOMAIN pred : pred[i]}
    IN [r \in 1..Cardinality(keep) |->
          CHOOSE x \in keep : Cardinality({y \in keep : y < x}) = r - 1]

PositionOf(v, x) ==
    LET hits == {k \in 1..Len(v) : v[k] = x}
    IN IF hits = {} THEN None ELSE Some((CHOOSE k \in hits : TRUE) - 1)

\* FilteredList::selected_item: the backing index under the cursor
selected_item(shown) ==
    IF shown.selected # None /\ InRange(shown.items, shown.selected[1])
    THEN Some(At(shown.items, shown.selected[1]))
    ELSE None

\* FilteredList::filter: recompute the visible sequence, keep the cursor on
\* the element it selected if that is still visible
FilteredList_filter(shown, items, pred) ==
    LET previous == selected_item(shown)
        kept == FilterIndices(pred)
        sorted == IF shown.sorting = "Index" THEN kept
                  ELSE StableSort(kept, items, shown.sorting)
        again == IF previous = None THEN None ELSE PositionOf(sorted, previous[1])
    IN [shown EXCEPT
          !.items = sorted,
          !.selected = IF again # None THEN again
                       ELSE IF sorted = <<>> THEN None ELSE Some(0)]

FilteredList_select_next(shown) ==
    IF shown.items = <<>> THEN shown
    ELSE IF shown.selected = None THEN [shown EXCEPT !.selected = Some(0)]
    ELSE IF shown.selected[1] + 1 < Len(shown.items)
         THEN [shown EXCEPT !.selected = Some(shown.selected[1] + 1)]
         ELSE shown

FilteredList_select_prev(shown) ==
    IF shown.items = <<>> THEN shown
    ELSE IF shown.selected = None THEN [shown EXCEPT !.selected = Some(0)]
    ELSE IF shown.selected[1] >= 1
         THEN [shown EXCEPT !.selected = Some(shown.selected[1] - 1)]
         ELSE shown

next_sorting_method(shown) ==
    LET k == CHOOSE i \in 1..Len(SortingMethods) : SortingMethods[i] = shown.sorting
    IN [shown EXCEPT !.sorting = SortingMethods[(k % Len(SortingMethods)) + 1]]

FilteredList_default == [items |-> <<>>, selected |-> None, sorting |-> "Index"]

----------------------------------------------------------------------------
(* Events.                                                                 *)

\* an Event, as handle_event receives it: kind is Command, Key, Mouse,
\* SongAdded, SecondTick or ChangedPlaylist; code is the command, the
\* KeyCode or the MouseEventKind; ch the character of KeyCode::Char
Ev(kind, code, ch, row, double_click) ==
    [kind |-> kind, code |-> code, ch |-> ch, row |-> row,
     double_click |-> double_click]

Commands ==
    {"PlayFromModal", "SelectLeft", "SelectRight", "Add", "Rename", "Delete",
     "SelectNext", "SelectPrev", "QueueSong"}

KeyCodes ==
    {"Left", "Right", "Up", "Down", "Enter", "Esc", "Backspace", "Delete",
     "Home", "End", "Char"}

MouseKinds == {"ScrollUp", "ScrollDown", "Down", "Moved"}

IsKey(ev, code) == ev.kind = "Key" /\ ev.code = code

IsChar(ev, c) == ev.kind = "Key" /\ ev.code = "Char" /\ ev.ch = c

\* the outcome of the external requests of one event: every request
\* succeeds, the first one fails, or the second one fails
IOOutcomes == {"ok", "fail", "fail2"}

----------------------------------------------------------------------------
(* InputModal and ConfirmationModal.                                       *)

\* the UTF-8 length of a character
Width(c) == IF c = "U3" THEN 3 ELSE 1

RECURSIVE ByteLen(_)
ByteLen(s) == IF s = <<>> THEN 0 ELSE Width(Head(s)) + ByteLen(Tail(s))

\* the number of characters before byte offset off: None when off is not on
\* a character boundary of s (String::is_char_boundary is false)
CharIndex(s, off) ==
    LET hits == {k \in 0..Len(s) : ByteLen(SubSeq(s, 1, k)) = off}
    IN IF hits = {} THEN None ELSE Some(CHOOSE k \in hits : TRUE)

is_char_boundary(s, off) == CharIndex(s, off) # None

Min(a, b) == IF a < b THEN a ELSE b

Max(a, b) == IF a > b THEN a ELSE b

InputModal_new == [kind |-> "Input", input |-> <<>>, cursor |-> 0, scroll |-> 0]

ConfirmationModal_new ==
    [kind |-> "Confirmation", input |-> <<>>, cursor |-> 0, scroll |-> 0]

RECURSIVE SkipToBoundary(_, _, _)
SkipToBoundary(input, cursor, x) ==
    IF is_char_boundary(input, cursor) THEN cursor
    ELSE SkipToBoundary(input, Max(0, Min(cursor + x, ByteLen(input))), x)

\* move_cursor without the loop that skips to a character boundary
move_cursor_bytes(m, x) ==
    [m EXCEPT !.cursor = Max(0, Min(m.cursor + x, ByteLen(m.input)))]

\* InputModal::move_cursor
move_cursor(m, x) ==
    [m EXCEPT !.cursor =
        SkipToBoundary(m.input, Max(0, Min(m.cursor + x, ByteLen(m.input))), x)]

\* what a Modal's handle_event returns: the dialog it leaves, the Message
\* (Nothing, Quit, Commit) with Commit's payload, and whether it panicked
ModalOut(m, message, payload, panics) ==
    [modal |-> m, message |-> message, payload |-> payload,
     panicked |-> panics]

\* String::insert(idx, ch) panics unless idx is a boundary within the string
InsertChar(m, c) ==
    LET k == CharIndex(m.input, m.cursor)
    IN IF k = None THEN ModalOut(m, "Nothing", <<>>, TRUE)
       ELSE ModalOut(
              move_cursor([m EXCEPT !.input = SubSeq(m.input, 1, k[1]) \o <<c>>
                                       \o SubSeq(m.input, k[1] + 1, Len(m.input))],
                          1),
              "Nothing", <<>>, FALSE)

\* String::remove(idx) panics unless idx is the boundary of a character
RemoveChar(m) ==
    LET k == CharIndex(m.input, m.cursor)
    IN IF k = None \/ k[1] >= Len(m.input) THEN ModalOut(m, "Nothing", <<>>, TRUE)
       ELSE ModalOut([m EXCEPT !.input = RemoveAt(m.input, k[1])],
                     "Nothing", <<>>, FALSE)

\* InputModal::handle_event
InputModal_handle_event(m, ev) ==
    IF ev.kind # "Key" THEN ModalOut(m, "Nothing", <<>>, FALSE)
    ELSE CASE ev.code = "Char" -> InsertChar(m, ev.ch)
           [] ev.code = "Backspace" ->
                IF m.cursor > 0 THEN RemoveChar(move_cursor(m, -1))
                ELSE ModalOut(m, "Nothing", <<>>, FALSE)
           [] ev.code = "Delete" ->
                IF m.cursor < ByteLen(m.input) THEN RemoveChar(m)
                ELSE ModalOut(m, "Nothing", <<>>, FALSE)
           [] ev.code = "Left" -> ModalOut(move_cursor(m, -1), "Nothing", <<>>, FALSE)
           [] ev.code = "Right" -> ModalOut(move_cursor(m, 1), "Nothing", <<>>, FALSE)
           [] ev.code = "Home" ->
                ModalOut([m EXCEPT !.cursor = 0], "Nothing", <<>>, FALSE)
           [] ev.code = "End" ->
                ModalOut([m EXCEPT !.cursor = ByteLen(m.input)], "Nothing", <<>>, FALSE)
           [] ev.code = "Esc" ->
                ModalOut([m EXCEPT !.input = <<>>], "Quit", <<>>, FALSE)
           [] ev.code = "Enter" ->
                ModalOut([m EXCEPT !.input = <<>>], "Commit", m.input, FALSE)
           [] OTHER -> ModalOut(m, "Nothing", <<>>, FALSE)

\* ConfirmationModal::handle_event
ConfirmationModal_handle_event(m, ev) ==
    IF ev.kind # "Key" THEN ModalOut(m, "Nothing", <<>>, FALSE)
    ELSE IF ev.code = "Enter" THEN ModalOut(m, "Commit", <<>>, FALSE)
    ELSE IF ev.code = "Esc" \/ IsChar(ev, "n") THEN ModalOut(m, "Quit", <<>>, FALSE)
    ELSE ModalOut(m, "Nothing", <<>>, FALSE)

\* usize as u16
AsU16(x) == x % 65536

\* calculate_scroll that scrolls right one column short
calculate_scroll_short(m, chunk_width) ==
    LET cursor == AsU16(m.cursor)
        right == IF cursor > m.scroll + chunk_width - 1
                 THEN cursor - chunk_width
                 ELSE m.scroll
    IN [m EXCEPT !.scroll = IF cursor <= right THEN Max(cursor - 1, 0) ELSE right]

\* calculate_scroll that scrolls left onto the cursor
calculate_scroll_onto(m, chunk_width) ==
    LET cursor == AsU16(m.cursor)
        right == IF cursor > m.scroll + chunk_width - 1
                 THEN cursor + 1 - chunk_width
                 ELSE m.scroll
    IN [m EXCEPT !.scroll = IF cursor <= right THEN cursor ELSE right]

\* InputModal::calculate_scroll: the dialog with its scroll updated
calculate_scroll(m, chunk_width) ==
    LET cursor == AsU16(m.cursor)
        right == IF cursor > m.scroll + chunk_width - 1
                 THEN cursor + 1 - chunk_width
                 ELSE m.scroll
    IN [m EXCEPT !.scroll = IF cursor <= right THEN Max(cursor - 1, 0) ELSE right]

\* InputModal::render: the scroll is computed, then the text is split at the
\* cursor, and str::split_at panics off a character boundary
InputModal_render(m, chunk_width) ==
    ModalOut(calculate_scroll(m, chunk_width), "Nothing", <<>>,
             ~is_char_boundary(m.input, m.cursor))

\* the dyn Modal dispatch of self.modal.handle_event
Modal_handle_event(m, ev) ==
    IF m.kind = "Input" THEN InputModal_handle_event(m, ev)
    ELSE ConfirmationModal_handle_event(m, ev)

\* Modal::mode
Modal_mode(m) == "Insert"

----------------------------------------------------------------------------
(* The state record the handlers work on, and their collaborators.         *)

\* the row of the first list line: the frame's top plus the margin
ClickTop == 1

AddCall(s, call) == [s EXCEPT !.calls = Append(@, call)]

AddDest(s, d) == [s EXCEPT !.dest = Append(@, d)]

Err(s) == [s EXCEPT !.result = "Err"]

Panic(s) == [s EXCEPT !.result = "Panic"]

\* whether the n-th fallible request of the event succeeds
Succeeds(io, n) == ~((n = 1 /\ io = "fail") \/ (n = 2 /\ io = "fail2"))

\* whether the store accepts the mutation that is the n-th request
Accepts(s, io, n) == Succeeds(io, n) /\ s.store_ops < MaxStoreOps

StoreWrite(s, new_store) ==
    [s EXCEPT !.store = new_store, !.store_ops = @ + 1]

\* app.mpv.playlist_load_files(&[(path, state, None)])?
mpv_playlist_load_files(s, path, state, io) ==
    LET called == AddCall(s, Call("playlist_load_files", path, 0, state))
    IN IF Succeeds(io, 1) THEN called ELSE Err(called)

\* playlist_management::swap_song(name, index)?: exchange the songs at
\* index and index + 1 of the playlist
swap_song(s, name, index, io) ==
    LET called == AddCall(s, Call("swap_song", name, index, <<>>))
        old == StoreSongs(s.store, name)
    IN IF ~Accepts(s, io, 1) THEN Err(called)
       ELSE IF InRange(old, index) /\ InRange(old, index + 1)
            THEN StoreWrite(called, StorePut(s.store, name, SwapAt(old, index, index + 1)))
            ELSE called

\* playlist_management::add_song(app, playlist, song): no result is returned
add_song(s, name, song, io) ==
    LET called == AddCall(s, Call("add_song", name, 0, song))
    IN IF Accepts(s, io, 1) /\ StoreFind(s.store, name) # None
       THEN StoreWrite(called, StorePut(s.store, name,
                Append(StoreSongs(s.store, name), Song(song, song, 0))))
       ELSE called

\* playlist_management::rename_song(playlist, index, new_name)?
rename_song(s, name, index, new_name, io) ==
    LET called == AddCall(s, Call("rename_song", name, index, new_name))
        old == StoreSongs(s.store, name)
    IN IF ~Accepts(s, io, 1) \/ ~InRange(old, index) THEN Err(called)
       ELSE StoreWrite(called, StorePut(s.store, name,
                [old EXCEPT ![index + 1].title = new_name]))

\* playlist_management::delete_song(playlist, index)?
delete_song(s, name, index, io) ==
    LET called == AddCall(s, Call("delete_song", name, index, <<>>))
        old == StoreSongs(s.store, name)
    IN IF ~Accepts(s, io, 1) \/ ~InRange(old, index) THEN Err(called)
       ELSE StoreWrite(called, StorePut(s.store, name, RemoveAt(old, index)))

\* playlist_management::create_playlist(name): Ok, PlaylistAlreadyExists or
\* IOError, left in result as Ok, Exists or Err
create_playlist(s, name, io) ==
    LET called == AddCall(s, Call("create_playlist", name, 0, <<>>))
    IN IF StoreFind(s.store, name) # None THEN [called EXCEPT !.result = "Exists"]
       ELSE IF ~Accepts(s, io, 1) THEN Err(called)
       ELSE StoreWrite(called, Append(s.store, [name |-> name, songs |-> <<>>]))

----------------------------------------------------------------------------
(* PlaylistsPane.                                                          *)

PlaylistsPane_new(st) ==
    [items |-> list_playlists(st),
     selected |-> IF st = <<>> THEN None ELSE Some(0)]

\* PlaylistsPane::selected_item: the name under the cursor
PlaylistsPane_selected_item(pane) ==
    IF pane.selected # None /\ InRange(pane.items, pane.selected[1])
    THEN Some(At(pane.items, pane.selected[1]))
    ELSE None

\* PlaylistsPane::reload_from_dir()?: the listing again, the cursor kept if
\* it is still in range, else on the first name, else None
reload_from_dir(s, io, n) ==
    LET called == AddCall(s, Call("reload_from_dir", <<>>, 0, <<>>))
        names == list_playlists(s.store)
        old == s.playlists.selected
    IN IF ~Succeeds(io, n) THEN Err(called)
       ELSE [called EXCEPT !.playlists =
               [items |-> names,
                selected |-> IF old # None /\ InRange(names, old[1]) THEN old
                             ELSE IF names = <<>> THEN None ELSE Some(0)]]

\* PlaylistsPane::open_editor_for_selected()?
open_editor_for_selected(s, io) ==
    LET called == AddCall(s, Call("open_editor", <<>>, 0, <<>>))
    IN IF Succeeds(io, 1) THEN called ELSE Err(called)

\* PlaylistsPane::mode
PlaylistsPane_mode(pane) == "Normal"

\* PlaylistsPane::handle_event: the cursor moves over the names
PlaylistsPane_handle_event(s, ev, io) ==
    LET pane == s.playlists
        n == Len(pane.items)
        cur == pane.selected
        down == IF n = 0 THEN cur
                ELSE IF cur = None THEN Some(0)
                ELSE Some(Min(cur[1] + 1, n - 1))
        up == IF n = 0 THEN cur
              ELSE IF cur = None THEN Some(0)
              ELSE Some(Max(cur[1] - 1, 0))
        isDown == \/ ev.kind = "Command" /\ ev.code = "SelectNext"
                  \/ IsKey(ev, "Down")
                  \/ ev.kind = "Mouse" /\ ev.code = "ScrollDown"
        isUp == \/ ev.kind = "Command" /\ ev.code = "SelectPrev"
                \/ IsKey(ev, "Up")
                \/ ev.kind = "Mouse" /\ ev.code = "ScrollUp"
    IN IF isDown THEN [s EXCEPT !.playlists.selected = down]
       ELSE IF isUp THEN [s EXCEPT !.playlists.selected = up]
       ELSE s

----------------------------------------------------------------------------
(* SongsPane.                                                              *)

SongsPane_new ==
    [title |-> <<" songs ">>, songs |-> <<>>, shown |-> FilteredList_default,
     filter |-> <<>>]

\* mode that takes every non-empty filter for one being typed
SongsPane_mode_nonempty(pane) ==
    IF pane.filter = <<>> THEN "Normal" ELSE "Insert"

\* SongsPane::mode
SongsPane_mode(pane) ==
    IF pane.filter = <<>> \/ pane.filter[Len(pane.filter)] = NL
    THEN "Normal" ELSE "Insert"

\* the predicate of refresh_shown without the match against the path
FilterMatches_title(filter, song) ==
    LET needle == to_lowercase(trim_end_matches_nl(SubSeq(filter, 2, Len(filter))))
    IN \/ filter = <<>>
       \/ contains(to_lowercase(song.title), needle)

\* the predicate of refresh_shown
FilterMatches(filter, song) ==
    LET needle == to_lowercase(trim_end_matches_nl(SubSeq(filter, 2, Len(filter))))
    IN \/ filter = <<>>
       \/ contains(to_lowercase(song.title), needle)
       \/ contains(to_lowercase(song.path), needle)

\* SongsPane::refresh_shown
refresh_shown(pane) ==
    [pane EXCEPT !.shown =
        FilteredList_filter(pane.shown, pane.songs,
            [i \in 0..(Len(pane.songs) - 1) |->
                FilterMatches(pane.filter, At(pane.songs, i))])]

\* selected_index that answers the cursor's line in the visible sequence
selected_index_line(pane) == pane.shown.selected

\* SongsPane::selected_index: the backing index of the selected song
selected_index(pane) == selected_item(pane.shown)

\* SongsPane::selected_item: the selected song, None without one
SongsPane_selected_item(pane) ==
    LET i == selected_item(pane.shown)
    IN IF i # None /\ InRange(pane.songs, i[1]) THEN Some(At(pane.songs, i[1]))
       ELSE None

select_index(pane, i) == [pane EXCEPT !.shown.selected = i]

select_next(pane) == [pane EXCEPT !.shown = FilteredList_select_next(@)]

select_prev(pane) == [pane EXCEPT !.shown = FilteredList_select_prev(@)]

\* update_from_playlist that always selects the first song
update_from_playlist_first(pane, st, name) ==
    LET loaded == refresh_shown([pane EXCEPT !.title = name,
                                             !.songs = StoreSongs(st, name),
                                             !.filter = <<>>])
    IN IF loaded.shown.items = <<>> THEN select_index(loaded, None)
       ELSE select_index(loaded, Some(0))

\* SongsPane::update_from_playlist, on the playlist of that name
update_from_playlist(pane, st, name) ==
    LET state == pane.shown.selected
        loaded == refresh_shown([pane EXCEPT !.title = name,
                                             !.songs = StoreSongs(st, name),
                                             !.filter = <<>>])
    IN IF state # None /\ state[1] < Len(loaded.songs) THEN select_index(loaded, state)
       ELSE IF loaded.shown.items = <<>> THEN select_index(loaded, None)
       ELSE select_index(loaded, Some(0))

\* SongsPane::update_from_playlist_pane
update_from_playlist_pane(pane, pl, st) ==
    LET name == PlaylistsPane_selected_item(pl)
    IN IF name = None THEN SongsPane_new
       ELSE update_from_playlist(pane, st, name[1])

\* SongsPane::from_playlist_pane: a new pane, loaded from the selected playlist
from_playlist_pane(pl, st) ==
    LET name == PlaylistsPane_selected_item(pl)
    IN IF name = None THEN SongsPane_new
       ELSE update_from_playlist(SongsPane_new, st, name[1])

\* handle_filter_key_event whose Esc removes the last character only
handle_filter_key_event_pop(pane, ev) ==
    CASE ev.code = "Char" ->
           [pane |-> [pane EXCEPT !.filter = Append(@, ev.ch)], handled |-> TRUE]
      [] ev.code \in {"Backspace", "Esc"} ->
           [pane |-> [pane EXCEPT !.filter = SubSeq(@, 1, Len(@) - 1)],
            handled |-> TRUE]
      [] ev.code = "Enter" ->
           [pane |-> [pane EXCEPT !.filter = Append(@, NL)], handled |-> TRUE]
      [] OTHER -> [pane |-> pane, handled |-> FALSE]

\* SongsPane::handle_filter_key_event: the filter it leaves, and whether
\* the key was one of the filter's
handle_filter_key_event(pane, ev) ==
    CASE ev.code = "Char" ->
           [pane |-> [pane EXCEPT !.filter = Append(@, ev.ch)], handled |-> TRUE]
      [] ev.code = "Backspace" ->
           [pane |-> [pane EXCEPT !.filter = SubSeq(@, 1, Len(@) - 1)],
            handled |-> TRUE]
      [] ev.code = "Esc" ->
           [pane |-> [pane EXCEPT !.filter = <<>>], handled |-> TRUE]
      [] ev.code = "Enter" ->
           [pane |-> [pane EXCEPT !.filter = Append(@, NL)], handled |-> TRUE]
      [] OTHER -> [pane |-> pane, handled |-> FALSE]

\* SongsPane::play_selected
play_selected(s, io) ==
    LET song == SongsPane_selected_item(s.songs)
    IN IF song = None THEN s
       ELSE mpv_playlist_load_files(s, song[1].path, "Replace", io)

\* click that selects the clicked line without looking at the list's length
click_unchecked(s, ev, io) ==
    LET line == Max(ev.row - ClickTop, 0)
        picked == [s EXCEPT !.songs = select_index(@, Some(line))]
    IN IF ev.double_click THEN play_selected(picked, io) ELSE picked

\* SongsPane::click
click(s, ev, io) ==
    LET line == Max(ev.row - ClickTop, 0)
    IN IF line >= Len(s.songs.shown.items) THEN s
       ELSE LET picked == [s EXCEPT !.songs = select_index(@, Some(line))]
            IN IF ev.double_click THEN play_selected(picked, io) ELSE picked

\* SongsPane::handle_terminal_event
SongsPane_handle_terminal_event(s, ev, io) ==
    LET pane == s.songs
        typed == handle_filter_key_event(pane, ev)
        last == Len(pane.shown.items) - 1
    IN IF ev.kind = "Key"
       THEN IF SongsPane_mode(pane) = "Insert" /\ typed.handled
            THEN [s EXCEPT !.songs = refresh_shown(typed.pane)]
            ELSE CASE ev.code = "Enter" -> play_selected(s, io)
                   [] ev.code = "Esc" ->
                        [s EXCEPT !.songs = refresh_shown([pane EXCEPT !.filter = <<>>])]
                   [] IsChar(ev, "G") ->
                        IF pane.shown.items # <<>>
                        THEN [s EXCEPT !.songs = select_index(pane, Some(last))]
                        ELSE s
                   [] ev.code = "Up" -> [s EXCEPT !.songs = select_prev(pane)]
                   [] ev.code = "Down" -> [s EXCEPT !.songs = select_next(pane)]
                   [] IsChar(ev, "/") -> [s EXCEPT !.songs.filter = <<"/">>]
                   [] OTHER -> s
       ELSE IF ev.kind = "Mouse"
       THEN CASE ev.code = "ScrollUp" -> [s EXCEPT !.songs = select_prev(pane)]
              [] ev.code = "ScrollDown" -> [s EXCEPT !.songs = select_next(pane)]
              [] ev.code = "Down" -> click(s, ev, io)
              [] OTHER -> s
       ELSE s

\* SongsPane::handle_command
SongsPane_handle_command(s, cmd, io) ==
    LET pane == s.songs
        sel == selected_index(pane)
        song == SongsPane_selected_item(pane)
    IN CASE cmd = "SelectNext" -> [s EXCEPT !.songs = select_next(pane)]
         [] cmd = "SelectPrev" -> [s EXCEPT !.songs = select_prev(pane)]
         [] cmd = "QueueSong" ->
              IF song = None THEN s
              ELSE mpv_playlist_load_files(s, song[1].path, "AppendPlay", io)
         [] cmd = "SwapSongUp" /\ pane.filter = <<>> ->
              IF sel # None /\ sel[1] >= 1
              THEN LET swapped == swap_song(s, pane.title, sel[1] - 1, io)
                   IN IF swapped.result = "Err" THEN swapped
                      ELSE IF ~InRange(pane.songs, sel[1]) THEN Panic(swapped)
                      ELSE [swapped EXCEPT !.songs =
                              select_prev([pane EXCEPT !.songs =
                                  SwapAt(@, sel[1] - 1, sel[1])])]
              ELSE s
         [] cmd = "SwapSongDown" /\ pane.filter = <<>> ->
              IF sel # None
              THEN LET swapped == swap_song(s, pane.title, sel[1], io)
                   IN IF swapped.result = "Err" THEN swapped
                      ELSE IF ~InRange(pane.songs, sel[1] + 1) THEN Panic(swapped)
                      ELSE [swapped EXCEPT !.songs =
                              select_next([pane EXCEPT !.songs =
                                  SwapAt(@, sel[1], sel[1] + 1)])]
              ELSE s
         [] cmd = "NextSortingMode" ->
              [s EXCEPT !.songs =
                  refresh_shown([pane EXCEPT !.shown = next_sorting_method(@)])]
         [] OTHER -> s

\* SongsPane::handle_event
SongsPane_handle_event(s, ev, io) ==
    CASE ev.kind = "Command" -> SongsPane_handle_command(s, ev.code, io)
      [] ev.kind \in {"Key", "Mouse"} -> SongsPane_handle_terminal_event(s, ev, io)
      [] ev.kind = "SongAdded" ->
           IF s.songs.shown.items # <<>>
           THEN [s EXCEPT !.songs =
                   select_index(@, Some(Len(s.songs.shown.items) - 1))]
           ELSE s
      [] OTHER -> s

----------------------------------------------------------------------------
(* BrowseScreen.                                                           *)

\* BrowsePane
Playlists == [pane |-> "Playlists"]

Songs == [pane |-> "Songs"]

Modal(modal_type) == [pane |-> "Modal", modal_type |-> modal_type]

IsModal(p) == p.pane = "Modal"

\* ModalType
Play == [type |-> "Play"]

AddSong(playlist) == [type |-> "AddSong", playlist |-> playlist]

AddPlaylist == [type |-> "AddPlaylist"]

RenameSong(playlist, index) ==
    [type |-> "RenameSong", playlist |-> playlist, index |-> index]

DeleteSong(playlist, index) ==
    [type |-> "DeleteSong", playlist |-> playlist, index |-> index]

\* reload_songs that leaves the Songs pane as it is
reload_songs_stale(s) ==
    LET name == PlaylistsPane_selected_item(s.playlists)
    IN IF name # None /\ StoreFind(s.store, name[1]) = None THEN Panic(s)
       ELSE s

\* BrowseScreen::reload_songs; opening the playlist's file panics if it is gone
reload_songs(s) ==
    LET name == PlaylistsPane_selected_item(s.playlists)
    IN IF name # None /\ StoreFind(s.store, name[1]) = None THEN Panic(s)
       ELSE [s EXCEPT !.songs = from_playlist_pane(s.playlists, s.store)]

\* BrowseScreen::open_modal
open_modal(s, modal_type) ==
    [s EXCEPT !.selected_pane = Modal(modal_type), !.modal = InputModal_new,
              !.opened = TRUE]

\* BrowseScreen::open_confirmation
open_confirmation(s, modal_type) ==
    [s EXCEPT !.selected_pane = Modal(modal_type), !.modal = ConfirmationModal_new,
              !.opened = TRUE]

\* select_next_panel without the arm that leaves the Songs pane
select_next_panel_oneway(s) ==
    CASE s.selected_pane = Playlists -> [s EXCEPT !.selected_pane = Songs]
      [] OTHER -> s

\* BrowseScreen::select_next_panel
select_next_panel(s) ==
    CASE s.selected_pane = Playlists -> [s EXCEPT !.selected_pane = Songs]
      [] s.selected_pane = Songs -> [s EXCEPT !.selected_pane = Playlists]
      [] OTHER -> s

\* handle_modal_message that treats a name collision as an I/O error
handle_modal_message_strict(s, out, io) ==
    IF ~IsModal(s.selected_pane) THEN Panic(s)
    ELSE
    LET mt == s.selected_pane.modal_type
        message == out.message
        to(t, p) == [t EXCEPT !.selected_pane = p]
    IN CASE message = "Nothing" -> s
         [] mt.type = "AddSong" /\ message = "Quit" -> to(s, Songs)
         [] mt.type = "AddSong" /\ message = "Commit" ->
              to(add_song(s, mt.playlist, out.payload, io), Songs)
         [] mt.type = "AddPlaylist" /\ message = "Quit" -> to(s, Playlists)
         [] mt.type = "AddPlaylist" /\ message = "Commit" ->
              LET created == create_playlist(s, out.payload, io)
              IN CASE created.result = "Ok" ->
                        LET reloaded == reload_from_dir(created, io, 2)
                        IN IF reloaded.result = "Err" THEN reloaded
                           ELSE to(reloaded, Playlists)
                   [] created.result = "Exists" -> Err(created)
                   [] OTHER -> created
         [] mt.type = "Play" /\ message = "Quit" -> to(s, Songs)
         [] mt.type = "Play" /\ message = "Commit" ->
              LET played == mpv_playlist_load_files(s, out.payload, "Replace", io)
              IN IF played.result = "Err" THEN played ELSE to(played, Songs)
         [] mt.type = "RenameSong" /\ message = "Quit" -> to(s, Songs)
         [] mt.type = "RenameSong" /\ message = "Commit" ->
              LET renamed == rename_song(s, mt.playlist, mt.index, out.payload, io)
              IN IF renamed.result = "Err" THEN renamed
                 ELSE to(reload_songs(renamed), Songs)
         [] mt.type = "DeleteSong" /\ message = "Quit" -> to(s, Songs)
         [] mt.type = "DeleteSong" /\ message = "Commit" ->
              LET deleted == delete_song(s, mt.playlist, mt.index, io)
              IN IF deleted.result = "Err" THEN deleted
                 ELSE to(reload_songs(deleted), Songs)

\* handle_modal_message that deletes the song whether the confirmation is
\* accepted or dismissed
handle_modal_message_eager(s, out, io) ==
    IF ~IsModal(s.selected_pane) THEN Panic(s)
    ELSE
    LET mt == s.selected_pane.modal_type
        message == out.message
        to(t, p) == [t EXCEPT !.selected_pane = p]
    IN CASE message = "Nothing" -> s
         [] mt.type = "AddSong" /\ message = "Quit" -> to(s, Songs)
         [] mt.type = "AddSong" /\ message = "Commit" ->
              to(add_song(s, mt.playlist, out.payload, io), Songs)
         [] mt.type = "AddPlaylist" /\ message = "Quit" -> to(s, Playlists)
         [] mt.type = "AddPlaylist" /\ message = "Commit" ->
              LET created == create_playlist(s, out.payload, io)
              IN CASE created.result = "Ok" ->
                        LET reloaded == reload_from_dir(created, io, 2)
                        IN IF reloaded.result = "Err" THEN reloaded
                           ELSE to(reloaded, Playlists)
                   [] created.result = "Exists" ->
                        to(AddCall([created EXCEPT !.result = "Ok"],
                                   Call("notify_err", out.payload, 0,
                                        <<"already exists">>)),
                           Playlists)
                   [] OTHER -> created
         [] mt.type = "Play" /\ message = "Quit" -> to(s, Songs)
         [] mt.type = "Play" /\ message = "Commit" ->
              LET played == mpv_playlist_load_files(s, out.payload, "Replace", io)
              IN IF played.result = "Err" THEN played ELSE to(played, Songs)
         [] mt.type = "RenameSong" /\ message = "Quit" -> to(s, Songs)
         [] mt.type = "RenameSong" /\ message = "Commit" ->
              LET renamed == rename_song(s, mt.playlist, mt.index, out.payload, io)
              IN IF renamed.result = "Err" THEN renamed
                 ELSE to(reload_songs(renamed), Songs)
         [] mt.type = "DeleteSong" ->
              LET deleted == delete_song(s, mt.playlist, mt.index, io)
              IN IF deleted.result = "Err" THEN deleted
                 ELSE to(reload_songs(deleted), Songs)

\* BrowseScreen::handle_modal_message
handle_modal_message(s, out, io) ==
    IF ~IsModal(s.selected_pane) THEN Panic(s)
    ELSE
    LET mt == s.selected_pane.modal_type
        message == out.message
        to(t, p) == [t EXCEPT !.selected_pane = p]
    IN CASE message = "Nothing" -> s
         [] mt.type = "AddSong" /\ message = "Quit" -> to(s, Songs)
         [] mt.type = "AddSong" /\ message = "Commit" ->
              to(add_song(s, mt.playlist, out.payload, io), Songs)
         [] mt.type = "AddPlaylist" /\ message = "Quit" -> to(s, Playlists)
         [] mt.type = "AddPlaylist" /\ message = "Commit" ->
              LET created == create_playlist(s, out.payload, io)
              IN CASE created.result = "Ok" ->
                        LET reloaded == reload_from_dir(created, io, 2)
                        IN IF reloaded.result = "Err" THEN reloaded
                           ELSE to(reloaded, Playlists)
                   [] created.result = "Exists" ->
                        to(AddCall([created EXCEPT !.result = "Ok"],
                                   Call("notify_err", out.payload, 0,
                                        <<"already exists">>)),
                           Playlists)
                   [] OTHER -> created
         [] mt.type = "Play" /\ message = "Quit" -> to(s, Songs)
         [] mt.type = "Play" /\ message = "Commit" ->
              LET played == mpv_playlist_load_files(s, out.payload, "Replace", io)
              IN IF played.result = "Err" THEN played ELSE to(played, Songs)
         [] mt.type = "RenameSong" /\ message = "Quit" -> to(s, Songs)
         [] mt.type = "RenameSong" /\ message = "Commit" ->
              LET renamed == rename_song(s, mt.playlist, mt.index, out.payload, io)
              IN IF renamed.result = "Err" THEN renamed
                 ELSE to(reload_songs(renamed), Songs)
         [] mt.type = "DeleteSong" /\ message = "Quit" -> to(s, Songs)
         [] mt.type = "DeleteSong" /\ message = "Commit" ->
              LET deleted == delete_song(s, mt.playlist, mt.index, io)
              IN IF deleted.result = "Err" THEN deleted
                 ELSE to(reload_songs(deleted), Songs)

\* pass_event_down with the panes left interactive under a modal: the event
\* also reaches the Songs pane
pass_event_down_unfrozen(s, ev, io) ==
    CASE s.selected_pane = Playlists ->
           PlaylistsPane_handle_event(AddDest(s, "playlists"), ev, io)
      [] s.selected_pane = Songs ->
           SongsPane_handle_event(AddDest(s, "songs"), ev, io)
      [] OTHER ->
           LET out == Modal_handle_event(s.modal, ev)
               handed == SongsPane_handle_event(AddDest(s, "modal"), ev, io)
           IN IF out.panicked THEN Panic(handed)
              ELSE handle_modal_message(
                     [handed EXCEPT !.modal = out.modal, !.msg = out.message],
                     out, io)

\* pass_event_down that takes the Songs pane's events to the modal as well
pass_event_down_modal(s, ev, io) ==
    CASE s.selected_pane = Playlists ->
           PlaylistsPane_handle_event(AddDest(s, "playlists"), ev, io)
      [] OTHER ->
           LET out == Modal_handle_event(s.modal, ev)
               handed == AddDest(s, "modal")
           IN IF out.panicked THEN Panic(handed)
              ELSE handle_modal_message(
                     [handed EXCEPT !.modal = out.modal, !.msg = out.message],
                     out, io)

\* BrowseScreen::pass_event_down
pass_event_down(s, ev, io) ==
    CASE s.selected_pane = Playlists ->
           PlaylistsPane_handle_event(AddDest(s, "playlists"), ev, io)
      [] s.selected_pane = Songs ->
           SongsPane_handle_event(AddDest(s, "songs"), ev, io)
      [] OTHER ->
           LET out == Modal_handle_event(s.modal, ev)
               handed == AddDest(s, "modal")
           IN IF out.panicked THEN Panic(handed)
              ELSE handle_modal_message(
                     [handed EXCEPT !.modal = out.modal, !.msg = out.message],
                     out, io)

\* BrowseScreen::mode
mode(s) ==
    CASE s.selected_pane = Playlists -> PlaylistsPane_mode(s.playlists)
      [] s.selected_pane = Songs -> SongsPane_mode(s.songs)
      [] OTHER -> Modal_mode(s.modal)

\* BrowseScreen::handle_command
handle_command(s, ev, io) ==
    LET cmd == ev.code
        playlist == PlaylistsPane_selected_item(s.playlists)
        index == selected_index(s.songs)
    IN CASE cmd = "PlayFromModal" -> open_modal(s, Play)
         [] cmd \in {"SelectRight", "SelectLeft"} -> select_next_panel(s)
         [] cmd = "Add" ->
              CASE s.selected_pane = Playlists -> open_modal(s, AddPlaylist)
                [] s.selected_pane = Songs ->
                     IF playlist # None THEN open_modal(s, AddSong(playlist[1]))
                     ELSE AddCall(s, Call("notify_err", <<>>, 0,
                                          <<"select a playlist">>))
                [] OTHER -> s
         [] cmd = "Rename" ->
              IF s.selected_pane = Songs /\ playlist # None /\ index # None
              THEN open_modal(s, RenameSong(playlist[1], index[1]))
              ELSE s
         [] cmd = "Delete" ->
              IF s.selected_pane = Songs /\ playlist # None /\ index # None
              THEN IF SongsPane_selected_item(s.songs) = None THEN Panic(s)
                   ELSE open_confirmation(s, DeleteSong(playlist[1], index[1]))
              ELSE s
         [] OTHER -> pass_event_down(s, ev, io)

\* BrowseScreen::handle_terminal_event
handle_terminal_event(s, ev, io) ==
    IF ev.kind = "Key"
    THEN CASE ev.code \in {"Right", "Left"} -> select_next_panel(s)
           [] IsChar(ev, "c") /\ mode(s) = "Normal" -> open_editor_for_selected(s, io)
           [] OTHER -> pass_event_down(s, ev, io)
    ELSE pass_event_down(s, ev, io)

\* BrowseScreen::handle_event
handle_event(s, ev, io) ==
    CASE ev.kind = "Command" -> handle_command(s, ev, io)
      [] ev.kind = "SongAdded" ->
           LET reloaded == reload_songs(s)
           IN IF reloaded.result = "Panic" THEN reloaded
              ELSE AddCall(reloaded, Call("notify_ok", <<>>, 0, <<"was added">>))
      [] ev.kind = "SecondTick" -> s
      [] ev.kind = "ChangedPlaylist" -> reload_songs(s)
      [] OTHER -> handle_terminal_event(s, ev, io)

----------------------------------------------------------------------------
(* The state machine: one step is one event given to handle_event.         *)

\* the stores the program may find at start-up
InitStores ==
    {<<>>,
     <<[name |-> <<"c">>,
        songs |-> <<Song(<<"/">>, <<"/">>, 2), Song(<<"c">>, <<"/", "c">>, 1)>>]>>}

\* the state record of the current state, as the handlers take it
Current ==
    [selected_pane |-> selected_pane, modal |-> modal, playlists |-> playlists,
     songs |-> songs, store |-> store, store_ops |-> store_ops,
     result |-> "Ok", msg |-> "None", dest |-> <<>>, calls |-> <<>>,
     opened |-> FALSE]

\* the character keys this model leaves out: those that would type a text
\* outside DialogTexts into a dialog, or outside FilterTexts into the filter
Offered(ev) ==
    (ev.kind = "Key" /\ ev.code = "Char") =>
        /\ (IsModal(selected_pane) /\ modal.kind = "Input") =>
               Modal_handle_event(modal, ev).modal.input \in DialogTexts
        /\ (selected_pane = Songs /\ SongsPane_mode(songs) = "Insert") =>
               Append(songs.filter, ev.ch) \in FilterTexts

\* BrowseScreen::new, with Box<dyn Modal>::default() an empty InputModal
Init ==
    /\ store \in InitStores
    /\ store_ops = 0
    /\ playlists = PlaylistsPane_new(store)
    /\ songs = from_playlist_pane(PlaylistsPane_new(store), store)
    /\ modal = InputModal_new
    /\ selected_pane = Playlists
    /\ panicked = FALSE
    /\ return_focus = "None"

\* what handle_event leaves when it is given ev in the current state: the
\* state record, with the handler's result (Ok, Err, Panic), the Message the
\* modal returned (None if it was not asked), the components the event was
\* handed to and the collaborator calls made
Outcome(ev, io) == handle_event(Current, ev, io)

\* the event loop hands ev to BrowseScreen::handle_event; a panic ends the
\* program, an error is reported and the loop goes on
Dispatch(ev, io) ==
    /\ ~panicked
    /\ Offered(ev)
    /\ \E after \in {Outcome(ev, io)} :
          /\ selected_pane' = after.selected_pane
          /\ modal' = after.modal
          /\ playlists' = after.playlists
          /\ songs' = after.songs
          /\ store' = after.store
          /\ store_ops' = after.store_ops
          /\ panicked' = (after.result = "Panic")
          /\ return_focus' = IF ~IsModal(after.selected_pane) THEN "None"
                             ELSE IF after.opened THEN selected_pane.pane
                             ELSE return_focus

\* the events of the model, each with the outcomes of its external requests
\* (an outcome is listed only where the event makes a request it decides)
Run(ev, io) == [ev |-> ev, io |-> io]

CommandRuns ==
    {Run(Ev("Command", cmd, "", 0, FALSE), "ok") : cmd \in Commands}
    \cup {Run(Ev("Command", "QueueSong", "", 0, FALSE), "fail")}

KeyRuns ==
    {Run(Ev("Key", code, "", 0, FALSE), "ok") : code \in KeyCodes \ {"Char"}}
    \cup {Run(Ev("Key", "Enter", "", 0, FALSE), io) : io \in IOOutcomes}

CharRuns ==
    {Run(Ev("Key", "Char", c, 0, FALSE), "ok") : c \in KeyChars}
    \cup {Run(Ev("Key", "Char", "c", 0, FALSE), "fail")}

MouseRuns ==
    {Run(Ev("Mouse", kind, "", 0, FALSE), "ok") : kind \in MouseKinds \ {"Down"}}
    \cup {Run(Ev("Mouse", "Down", "", row, FALSE), "ok") : row \in 1..2}
    \cup {Run(Ev("Mouse", "Down", "", row, TRUE), io) :
             row \in 1..2, io \in {"ok", "fail"}}

SongAddedRun == Run(Ev("SongAdded", "", "", 0, FALSE), "ok")

SecondTickRun == Run(Ev("SecondTick", "", "", 0, FALSE), "ok")

ChangedPlaylistRun == Run(Ev("ChangedPlaylist", "", "", 0, FALSE), "ok")

TerminalRuns == KeyRuns \cup CharRuns \cup MouseRuns

AllRuns ==
    CommandRuns \cup TerminalRuns
    \cup {SongAddedRun, SecondTickRun, ChangedPlaylistRun}

Command == \E r \in CommandRuns : Dispatch(r.ev, r.io)

KeyPress == \E r \in KeyRuns : Dispatch(r.ev, r.io)

CharKey == \E r \in CharRuns : Dispatch(r.ev, r.io)

Mouse == \E r \in MouseRuns : Dispatch(r.ev, r.io)

SongAdded == \E r \in {SongAddedRun} : Dispatch(r.ev, r.io)

SecondTick == \E r \in {SecondTickRun} : Dispatch(r.ev, r.io)

ChangedPlaylist == \E r \in {ChangedPlaylistRun} : Dispatch(r.ev, r.io)

Next ==
    \/ Command
    \/ KeyPress
    \/ CharKey
    \/ Mouse
    \/ SongAdded
    \/ SecondTick
    \/ ChangedPlaylist

Spec == Init /\ [][Next]_vars

----------------------------------------------------------------------------
(* The InputModal alone: key events given to its handle_event, and render. *)

\* the characters typed into the dialog: one of one byte, one of three
ModalChars == {"c", "U3"}

ModalKeyEvents ==
    {Ev("Key", code, "", 0, FALSE) : code \in KeyCodes \ {"Char"}}
    \cup {Ev("Key", "Char", c, 0, FALSE) : c \in ModalChars}

\* the keys this model leaves out: those that make the text longer than
\* MaxInput characters
ModalOffered(ev) == Len(InputModal_handle_event(modal, ev).modal.input) <= MaxInput

\* a Play dialog is open over an empty store
ModalInit ==
    /\ store = <<>>
    /\ store_ops = 0
    /\ playlists = PlaylistsPane_new(<<>>)
    /\ songs = SongsPane_new
    /\ modal = InputModal_new
    /\ selected_pane = Modal(Play)
    /\ panicked = FALSE
    /\ return_focus = "Playlists"

\* the dialog out leaves, the rest of the screen as it is
ModalStep(out) ==
    /\ modal' = out.modal
    /\ panicked' = out.panicked
    /\ UNCHANGED <<selected_pane, playlists, songs, store, store_ops, return_focus>>

ModalKey ==
    /\ ~panicked
    /\ \E ev \in ModalKeyEvents :
          /\ ModalOffered(ev)
          /\ \E out \in {InputModal_handle_event(modal, ev)} : ModalStep(out)

ModalRender ==
    /\ ~panicked
    /\ \E out \in {InputModal_render(modal, ChunkWidth)} : ModalStep(out)

ModalNext ==
    \/ ModalKey
    \/ ModalRender

ModalSpec == ModalInit /\ [][ModalNext]_vars

----------------------------------------------------------------------------
(* The Songs pane alone, over a playlist of three songs: the events its     *)
(* handle_event is given while it has the focus, the playlist file edited  *)
(* from outside, and the reload from the playlist.                         *)

Banana == <<"B", "a", "n", "a", "n", "a">>

Apple == <<"a", "p", "p", "l", "e">>

Cherry == <<"C", "h", "e", "r", "r", "y">>

SongsStore ==
    <<[name |-> <<"p">>,
       songs |-> <<Song(Banana, <<"/", "x">>, 3), Song(Apple, <<"/", "N">>, 1),
                   Song(Cherry, <<"/", "y">>, 2)>>]>>

\* the characters typed into the filter, and those of the keys of normal mode
FilterChars == {"a", "N"}

SongsChars == FilterChars \cup {"/", "G"}

SongsKeyRuns ==
    {Run(Ev("Key", code, "", 0, FALSE), "ok") : code \in KeyCodes \ {"Char"}}
    \cup {Run(Ev("Key", "Char", c, 0, FALSE), "ok") : c \in SongsChars}

SongsCommandRuns ==
    {Run(Ev("Command", cmd, "", 0, FALSE), "ok") :
        cmd \in {"SelectNext", "SelectPrev", "QueueSong", "NextSortingMode",
                 "SwapSongUp", "SwapSongDown"}}
    \cup {Run(Ev("Command", "SwapSongDown", "", 0, FALSE), "fail")}

SongsMouseRuns ==
    {Run(Ev("Mouse", kind, "", 0, FALSE), "ok") : kind \in MouseKinds \ {"Down"}}
    \cup {Run(Ev("Mouse", "Down", "", row, FALSE), "ok") : row \in 1..3}

SongsRuns == SongsKeyRuns \cup SongsCommandRuns \cup SongsMouseRuns \cup {SongAddedRun}

\* the character keys this model leaves out: those that would type a
\* character outside FilterChars into the filter, or one too many
SongsOffered(ev) ==
    (ev.kind = "Key" /\ ev.code = "Char" /\ SongsPane_mode(songs) = "Insert") =>
        ev.ch \in FilterChars /\ Len(songs.filter) < MaxFilter

\* the Songs pane has the focus, loaded from the playlist
SongsInit ==
    /\ store = SongsStore
    /\ store_ops = 0
    /\ playlists = PlaylistsPane_new(SongsStore)
    /\ songs = from_playlist_pane(PlaylistsPane_new(SongsStore), SongsStore)
    /\ modal = InputModal_new
    /\ selected_pane = Songs
    /\ panicked = FALSE
    /\ return_focus = "None"

\* what SongsPane::handle_event leaves when it is given ev
SongsOutcome(ev, io) == SongsPane_handle_event(Current, ev, io)

SongsDispatch(ev, io) ==
    /\ ~panicked
    /\ SongsOffered(ev)
    /\ \E after \in {SongsOutcome(ev, io)} :
          /\ songs' = after.songs
          /\ store' = after.store
          /\ store_ops' = after.store_ops
          /\ panicked' = (after.result = "Panic")
    /\ UNCHANGED <<selected_pane, modal, playlists, return_focus>>

SongsKey == \E r \in SongsKeyRuns : SongsDispatch(r.ev, r.io)

SongsCommand == \E r \in SongsCommandRuns : SongsDispatch(r.ev, r.io)

SongsMouse == \E r \in SongsMouseRuns : SongsDispatch(r.ev, r.io)

SongsSongAdded == \E r \in {SongAddedRun} : SongsDispatch(r.ev, r.io)

\* the playlist file is rewritten in the editor: its last song is removed
SongsEdited ==
    /\ ~panicked
    /\ store_ops < MaxStoreOps
    /\ StoreSongs(store, songs.title) # <<>>
    /\ store' = StorePut(store, songs.title,
                         RemoveAt(StoreSongs(store, songs.title),
                                  Len(StoreSongs(store, songs.title)) - 1))
    /\ store_ops' = store_ops + 1
    /\ UNCHANGED <<selected_pane, modal, playlists, songs, panicked, return_focus>>

\* the pane is reloaded from the selected playlist
SongsReload ==
    /\ ~panicked
    /\ songs' = update_from_playlist_pane(songs, playlists, store)
    /\ UNCHANGED <<selected_pane, modal, playlists, store, store_ops, panicked,
                   return_focus>>

SongsNext ==
    \/ SongsKey
    \/ SongsCommand
    \/ SongsMouse
    \/ SongsSongAdded
    \/ SongsEdited
    \/ SongsReload

SongsSpec == SongsInit /\ [][SongsNext]_vars

----------------------------------------------------------------------------
(* Claims.  Each is stated of every reachable state of the running program *)
(* and of every event the event loop may hand to handle_event there: o is  *)
(* what the handler leaves.                                                *)

\* the events the event loop may hand over in the current state
Deliverable(runs) == IF panicked THEN {} ELSE {r \in runs : Offered(r.ev)}

Runs == Deliverable(AllRuns)

\* C1: when the modal emits Cancelled (Message::Quit), Focus becomes the
\* list pane that was focused when the modal was opened.
C1_CancelReturnsFocus ==
    \A r \in Runs : \A o \in {Outcome(r.ev, r.io)} :
        o.msg = "Quit" => o.selected_pane.pane = return_focus

\* C2: no command or event handled while Focus is Modal(_) opens a dialog,
\* replaces the active one or changes the pending intent.
C2_OpenOnlyFromListPane ==
    \A r \in Runs : \A o \in {Outcome(r.ev, r.io)} :
        IsModal(selected_pane) =>
            /\ ~o.opened
            /\ IsModal(o.selected_pane) => o.selected_pane = selected_pane

\* C3: as soon as the modal emits Cancelled or Committed, Focus leaves
\* Modal(intent), whatever the outcome of the external operation, so the
\* intent cannot be resolved a second time.
C3_TerminalMessageClosesModal ==
    \A r \in Runs : \A o \in {Outcome(r.ev, r.io)} :
        (o.msg \in {"Quit", "Commit"} /\ o.result # "Panic")
            => ~IsModal(o.selected_pane)

\* C4: while Focus is Modal(_), every terminal event (key or mouse) is handed
\* to the modal's handle_event and to nothing else.
C4_TerminalEventsReachModal ==
    IsModal(selected_pane) =>
        \A r \in Deliverable(TerminalRuns) : \A o \in {Outcome(r.ev, r.io)} :
            o.dest = <<"modal">>

\* the runs of the events a user or the command layer produces, and the tick
InputRuns == CommandRuns \cup TerminalRuns \cup {SecondTickRun}

\* the runs of the store's notifications
ReloadRuns == {SongAddedRun, ChangedPlaylistRun}

\* neither list pane differs from the current one in backing collection,
\* filter, visible sequence or cursor
PanesUnchanged(o) == o.playlists = playlists /\ o.songs = songs

\* C5 as stated: while Focus is Modal(_), no event (terminal event, command,
\* SongAdded, ChangedPlaylist, SecondTick) changes either list pane unless
\* the modal emits Cancelled or Committed on it.
C5_PanesFrozenUnderModal ==
    IsModal(selected_pane) =>
        \A r \in Runs : \A o \in {Outcome(r.ev, r.io)} :
            o.msg \notin {"Quit", "Commit"} => PanesUnchanged(o)

\* C5 amended: while Focus is Modal(_), no terminal event, command or
\* SecondTick changes either list pane unless the modal emits Cancelled or
\* Committed on it; SongAdded and ChangedPlaylist leave the Playlists pane
\* alone and replace the Songs pane by one loaded anew from the selected
\* playlist.
C5_InputLeavesPanesUnderModal ==
    IsModal(selected_pane) =>
        /\ \A r \in Deliverable(InputRuns) : \A o \in {Outcome(r.ev, r.io)} :
               o.msg \notin {"Quit", "Commit"} => PanesUnchanged(o)
        /\ \A r \in Deliverable(ReloadRuns) : \A o \in {Outcome(r.ev, r.io)} :
               o.result = "Ok" =>
                   /\ o.playlists = playlists
                   /\ o.songs = from_playlist_pane(playlists, store)

\* C5 happens: under a modal, with songs listed and the Songs cursor off the
\* first line, a key changes the dialog and no pane, and SongAdded moves the
\* Songs cursor
C5_Witness ==
    /\ IsModal(selected_pane)
    /\ songs.shown.selected = Some(1)
    /\ \E r \in Deliverable(TerminalRuns) : \E o \in {Outcome(r.ev, r.io)} :
          o.msg = "Nothing" /\ o.modal # modal /\ PanesUnchanged(o)
    /\ \E o \in {Outcome(SongAddedRun.ev, SongAddedRun.io)} :
          o.result = "Ok" /\ o.songs # songs

\* the runs on which the dialog may emit Committed
CommitRuns == {r \in KeyRuns : r.ev.code = "Enter"}

\* the external operations of o succeeded: no error came back and no
\* error notification was raised
Succeeded(o) ==
    /\ o.result = "Ok"
    /\ \A k \in 1..Len(o.calls) : o.calls[k].op # "notify_err"

\* what a Committed(payload) of the pending intent mt must leave in o
CommitEffect(mt, payload, o) ==
    CASE mt.type = "Play" ->
           /\ o.calls = <<Call("playlist_load_files", payload, 0, "Replace")>>
           /\ o.selected_pane = Songs
      [] mt.type = "AddSong" ->
           /\ o.calls = <<Call("add_song", mt.playlist, 0, payload)>>
           /\ o.selected_pane = Songs
      [] mt.type = "AddPlaylist" ->
           /\ o.calls = <<Call("create_playlist", payload, 0, <<>>),
                          Call("reload_from_dir", <<>>, 0, <<>>)>>
           /\ o.playlists.items = list_playlists(o.store)
           /\ o.selected_pane = Playlists
      [] mt.type = "RenameSong" ->
           /\ o.calls = <<Call("rename_song", mt.playlist, mt.index, payload)>>
           /\ o.songs = from_playlist_pane(o.playlists, o.store)
           /\ o.selected_pane = Songs
      [] mt.type = "DeleteSong" ->
           /\ o.calls = <<Call("delete_song", mt.playlist, mt.index, <<>>)>>
           /\ o.songs = from_playlist_pane(o.playlists, o.store)
           /\ o.selected_pane = Songs

\* C6: when the modal emits Committed(payload) and the external operation
\* succeeds, exactly the one action of the pending intent is invoked, with
\* the playlist and index of the intent and the text of the dialog, the pane
\* the intent names is reloaded, and Focus becomes Songs (Playlists for
\* AddPlaylist).
C6_CommitRunsTheIntent ==
    IsModal(selected_pane) =>
        \A r \in Deliverable(CommitRuns) : \A o \in {Outcome(r.ev, r.io)} :
            (o.msg = "Commit" /\ Succeeded(o)) =>
                CommitEffect(selected_pane.modal_type, modal.input, o)

\* C6 happens: a RenameSong dialog holding a new title commits, the store
\* accepts, and the Songs pane shows the song under its new title
C6_Witness ==
    /\ IsModal(selected_pane)
    /\ selected_pane.modal_type.type = "RenameSong"
    /\ modal.input # <<>>
    /\ \E r \in Deliverable(CommitRuns) : \E o \in {Outcome(r.ev, r.io)} :
          /\ o.msg = "Commit" /\ Succeeded(o)
          /\ o.store # store
          /\ o.songs # songs
          /\ o.selected_pane = Songs

\* C7: when an AddPlaylist dialog commits a name the store already holds, an
\* error notification is raised, no playlist is created, the Playlists pane
\* is not reloaded, the handler returns Ok, and Focus becomes Playlists.
C7_DuplicatePlaylistIsNotFatal ==
    (IsModal(selected_pane) /\ selected_pane.modal_type.type = "AddPlaylist"
       /\ StoreFind(store, modal.input) # None) =>
        \A r \in Deliverable(CommitRuns) : \A o \in {Outcome(r.ev, r.io)} :
            o.msg = "Commit" =>
                /\ \E k \in 1..Len(o.calls) : o.calls[k].op = "notify_err"
                /\ o.store = store
                /\ \A k \in 1..Len(o.calls) : o.calls[k].op # "reload_from_dir"
                /\ o.playlists = playlists
                /\ o.result = "Ok"
                /\ o.selected_pane = Playlists

\* C7 happens: an AddPlaylist dialog holds the name of a playlist of the
\* store, and Enter closes it with one notification
C7_Witness ==
    /\ IsModal(selected_pane)
    /\ selected_pane.modal_type.type = "AddPlaylist"
    /\ StoreFind(store, modal.input) # None
    /\ \E r \in Deliverable(CommitRuns) : \E o \in {Outcome(r.ev, r.io)} :
          /\ o.msg = "Commit"
          /\ o.calls[Len(o.calls)].op = "notify_err"
          /\ o.selected_pane = Playlists

\* C8: resolving Cancelled calls neither the playlist store nor the player
\* and leaves the store and both panes' backing collections as they are;
\* resolving Nothing changes neither Focus nor any pane.
C8_CancelAndNothingAreInert ==
    IsModal(selected_pane) =>
        \A r \in Deliverable(TerminalRuns) : \A o \in {Outcome(r.ev, r.io)} :
            /\ o.msg = "Quit" =>
                   /\ o.calls = <<>>
                   /\ o.store = store
                   /\ o.playlists.items = playlists.items
                   /\ o.songs.songs = songs.songs
            /\ o.msg = "Nothing" =>
                   /\ o.selected_pane = selected_pane
                   /\ PanesUnchanged(o)

\* C8 happens: a DeleteSong confirmation over a listed song is dismissed
\* with Escape, the song stays and Focus is Songs; another key of the same
\* state resolves to Nothing
C8_Witness ==
    /\ IsModal(selected_pane)
    /\ selected_pane.modal_type.type = "DeleteSong"
    /\ InRange(StoreSongs(store, selected_pane.modal_type.playlist),
               selected_pane.modal_type.index)
    /\ \E r \in Deliverable(TerminalRuns) : \E o \in {Outcome(r.ev, r.io)} :
          /\ r.ev.code = "Esc" /\ o.msg = "Quit"
          /\ o.store = store /\ o.selected_pane = Songs
    /\ \E r \in Deliverable(TerminalRuns) : \E o \in {Outcome(r.ev, r.io)} :
          o.msg = "Nothing" /\ o.selected_pane = selected_pane

\* the runs of the pane-switch command and of the Left and Right keys
SwitchRuns ==
    {r \in CommandRuns : r.ev.code \in {"SelectLeft", "SelectRight"}}
    \cup {r \in KeyRuns : r.ev.code \in {"Left", "Right"}}

\* a pane switch toggles Focus between Playlists and Songs, a second one
\* restores it, and under a modal it leaves Focus, intent and dialog alone
SwitchToggles ==
    \A r \in Deliverable(SwitchRuns) : \A o \in {Outcome(r.ev, r.io)} :
        /\ selected_pane = Playlists => o.selected_pane = Songs
        /\ selected_pane = Songs => o.selected_pane = Playlists
        /\ IsModal(selected_pane) =>
               o.selected_pane = selected_pane /\ o.modal = modal
        /\ \A r2 \in SwitchRuns :
               handle_event(o, r2.ev, r2.io).selected_pane = selected_pane

\* C9: Focus starts as Playlists; SelectLeft, SelectRight and the Left and
\* Right keys toggle Focus between Playlists and Songs, so that two of them
\* in a row restore it, and change nothing while Focus is Modal(_).
C9_PaneSwitchToggles == selected_pane = Playlists /\ []SwitchToggles

\* C9 happens: Focus is Songs with a filter typed, reached from Playlists by
\* a switch, and the Left key takes it back to Playlists
C9_Witness ==
    /\ selected_pane = Songs
    /\ songs.filter # <<>>
    /\ \E r \in Deliverable(SwitchRuns) : \E o \in {Outcome(r.ev, r.io)} :
          r.ev.code = "Left" /\ o.selected_pane = Playlists

\* the runs of the Add, Rename and Delete commands
EditRuns == {r \in CommandRuns : r.ev.code \in {"Add", "Rename", "Delete"}}

\* o differs from the current state in neither Focus, dialog, pane nor store
Unchanged(o) ==
    /\ o.selected_pane = selected_pane
    /\ o.modal = modal
    /\ PanesUnchanged(o)
    /\ o.store = store

\* o opened the dialog new_modal for the intent mt and did nothing else
Opened(o, mt, new_modal) ==
    /\ o.opened
    /\ o.selected_pane = Modal(mt)
    /\ o.modal = new_modal
    /\ PanesUnchanged(o)
    /\ o.calls = <<>>

\* C10: Add on Playlists opens AddPlaylist; Add on Songs opens AddSong of the
\* selected playlist, or without one raises an error notification and does
\* nothing else; Rename and Delete on Songs with a playlist and a song
\* selected open RenameSong and DeleteSong of that playlist and of the
\* song's index in the backing collection; in every other case the three
\* commands change nothing.
C10_EditCommandsOpenOnPrecondition ==
    \A r \in Deliverable(EditRuns) : \A o \in {Outcome(r.ev, r.io)} :
        LET cmd == r.ev.code
            pl == PlaylistsPane_selected_item(playlists)
            line == songs.shown.selected
            picked == /\ selected_pane = Songs
                      /\ pl # None
                      /\ line # None
                      /\ InRange(songs.shown.items, line[1])
        IN /\ o.result = "Ok"
           /\ CASE cmd = "Add" /\ selected_pane = Playlists ->
                      Opened(o, AddPlaylist, InputModal_new)
                [] cmd = "Add" /\ selected_pane = Songs /\ pl # None ->
                      Opened(o, AddSong(pl[1]), InputModal_new)
                [] cmd = "Add" /\ selected_pane = Songs /\ pl = None ->
                      /\ Unchanged(o)
                      /\ Len(o.calls) = 1 /\ o.calls[1].op = "notify_err"
                [] cmd = "Rename" /\ picked ->
                      Opened(o, RenameSong(pl[1], At(songs.shown.items, line[1])),
                             InputModal_new)
                [] cmd = "Delete" /\ picked ->
                      Opened(o, DeleteSong(pl[1], At(songs.shown.items, line[1])),
                             ConfirmationModal_new)
                [] OTHER -> Unchanged(o) /\ o.calls = <<>> /\ ~o.opened

\* C10 happens: the filter hides the first song, so the selected song's line
\* is 0 and its backing index 1, and Rename opens RenameSong of index 1
C10_Witness ==
    /\ selected_pane = Songs
    /\ songs.shown.selected = Some(0)
    /\ songs.shown.items = <<1>>
    /\ \E r \in Deliverable(EditRuns) : \E o \in {Outcome(r.ev, r.io)} :
          /\ r.ev.code = "Rename"
          /\ o.opened
          /\ o.selected_pane.modal_type.index = 1

----------------------------------------------------------------------------
(* Claims about the InputModal, stated of every reachable state of          *)
(* ModalSpec and of every key its handle_event may be given there.         *)

\* the byte offset at which character k (from 0) of the text begins
CharStart(input, k) == ByteLen(SubSeq(input, 1, k))

\* the cursor is a position of the text: a character boundary within it
CursorValid(m) == \E k \in 0..Len(m.input) : m.cursor = CharStart(m.input, k)

\* the number of characters before a valid cursor
CursorChar(m) == CHOOSE k \in 0..Len(m.input) : m.cursor = CharStart(m.input, k)

\* the keys the dialog can be given in the current state
ModalKeys == IF panicked THEN {} ELSE {ev \in ModalKeyEvents : ModalOffered(ev)}

\* C11: from a character boundary, move_cursor(1) lands on the next
\* character boundary (the end of the text at the end), move_cursor(-1) on
\* the previous one (0 at 0), and a move past the end on the text's length.
C11_MoveCursorLandsOnBoundary ==
    CursorValid(modal) =>
        LET k == CursorChar(modal)
            n == Len(modal.input)
        IN /\ move_cursor(modal, 1).cursor = CharStart(modal.input, Min(k + 1, n))
           /\ move_cursor(modal, -1).cursor = CharStart(modal.input, Max(k - 1, 0))
           /\ move_cursor(modal, ByteLen(modal.input) + 1).cursor
                  = ByteLen(modal.input)

\* C11 happens: the cursor was moved back to the start of a three-byte
\* character that a one-byte character follows, and a move right adds 3
C11_Witness ==
    /\ CursorValid(modal)
    /\ CursorChar(modal) + 2 <= Len(modal.input)
    /\ modal.input[CursorChar(modal) + 1] = "U3"
    /\ modal.input[CursorChar(modal) + 2] = "c"
    /\ move_cursor(modal, 1).cursor = modal.cursor + 3
    /\ move_cursor(move_cursor(modal, 1), -1).cursor = modal.cursor

\* the text with character c put in before character k
Inserted(input, k, c) == SubSeq(input, 1, k) \o <<c>> \o SubSeq(input, k + 1, Len(input))

\* the text without character k (from 0)
Removed(input, k) == SubSeq(input, 1, k) \o SubSeq(input, k + 2, Len(input))

\* what the key ev makes of the text whose cursor stands before character k
Edited(input, k, ev) ==
    CASE ev.code = "Char" -> Inserted(input, k, ev.ch)
      [] ev.code = "Backspace" -> IF k = 0 THEN input ELSE Removed(input, k - 1)
      [] ev.code = "Delete" -> IF k = Len(input) THEN input ELSE Removed(input, k)
      [] ev.code \in {"Enter", "Esc"} -> <<>>
      [] OTHER -> input

\* C12: Enter emits Commit of the text and Esc emits Quit, both leaving the
\* text empty; every other key emits Nothing; a character is inserted at the
\* cursor, Backspace removes the character before it (none at 0), Delete the
\* character at it (none at the end), and no other key changes the text.
C12_KeysEditAndCommit ==
    \A ev \in ModalKeys : \A out \in {InputModal_handle_event(modal, ev)} :
        /\ ~out.panicked
        /\ out.message = CASE ev.code = "Enter" -> "Commit"
                            [] ev.code = "Esc" -> "Quit"
                            [] OTHER -> "Nothing"
        /\ ev.code = "Enter" => out.payload = modal.input
        /\ CursorValid(modal) =>
               out.modal.input = Edited(modal.input, CursorChar(modal), ev)

\* C13: the cursor is a position of the text in every state, and no key
\* makes handle_event fail.
C13_CursorAlwaysValid ==
    /\ ~panicked
    /\ CursorValid(modal)

\* the cursor is inside the window of width w that begins at the scroll
InWindow(m, w) == m.scroll <= m.cursor /\ m.cursor < m.scroll + w

\* the keys that edit the text or move the cursor
EditKeys ==
    {ev \in ModalKeys :
        ev.code \in {"Char", "Backspace", "Delete", "Left", "Right", "Home", "End"}}

\* C14: after every edit key (character, Backspace, Delete, Left, Right,
\* Home, End), before any render, scroll <= cursor < scroll + window_width.
C14_CursorVisibleAfterEdit ==
    (CursorValid(modal) /\ InWindow(modal, ChunkWidth)) =>
        \A ev \in EditKeys : \A out \in {InputModal_handle_event(modal, ev)} :
            InWindow(out.modal, ChunkWidth)

\* the least scroll that shows the cursor in a window of width w
MinScroll(cursor, w) == Max(0, cursor + 1 - w)

\* C15 as stated: once the scroll has been computed it is the least value
\* with scroll <= cursor < scroll + window_width.
C15_ScrollIsMinimal ==
    \A out \in {calculate_scroll(modal, ChunkWidth)} :
        out.scroll = MinScroll(modal.cursor, ChunkWidth)

\* the widths calculate_scroll is tried with
ChunkWidths == 2..(ChunkWidth + 1)

\* C15 amended: once the scroll has been computed for a window of width 2
\* or more, scroll <= cursor < scroll + window_width holds, and the scroll
\* is the least such value whenever the computation increased it.
C15_ScrollShowsCursor ==
    \A w \in ChunkWidths : \A out \in {calculate_scroll(modal, w)} :
        /\ InWindow(out, w)
        /\ out.scroll > modal.scroll => out.scroll = MinScroll(modal.cursor, w)

\* C15 happens: the cursor stands past the right edge of the window of a
\* scroll computed before, and the computation moves the scroll up to the
\* least value that shows it
C15_Witness ==
    /\ modal.scroll > 0
    /\ modal.cursor > modal.scroll + ChunkWidth - 1
    /\ \E out \in {calculate_scroll(modal, ChunkWidth)} :
          /\ out.scroll > modal.scroll
          /\ InWindow(out, ChunkWidth)

\* C16: calculate_scroll(width), width >= 2: with the cursor past the right
\* edge the scroll becomes cursor + 1 - width; with the cursor at or before
\* the scroll it becomes cursor - 1, 0 at least; otherwise it stays; and
\* the result has scroll <= cursor < scroll + width.
C16_CalculateScrollCases ==
    \A w \in ChunkWidths : \A out \in {calculate_scroll(modal, w)} :
        /\ out.scroll =
              CASE modal.cursor > modal.scroll + w - 1 -> modal.cursor + 1 - w
                [] modal.cursor <= modal.scroll -> Max(modal.cursor - 1, 0)
                [] OTHER -> modal.scroll
        /\ InWindow(out, w)
        /\ out.input = modal.input /\ out.cursor = modal.cursor

\* C16 happens: the cursor went back to the scroll of an earlier render, not
\* to 0, and the scroll becomes cursor - 1
C16_Witness ==
    /\ modal.cursor >= 2
    /\ modal.cursor <= modal.scroll
    /\ \E w \in ChunkWidths : \E out \in {calculate_scroll(modal, w)} :
          out.scroll = modal.cursor - 1 /\ InWindow(out, w)

----------------------------------------------------------------------------
(* Claims about the Songs pane, stated of every reachable state of         *)
(* SongsSpec and of every event its handle_event may be given there.       *)

\* the events the Songs pane can be given in the current state
SongsDeliverable(runs) == IF panicked THEN {} ELSE {r \in runs : SongsOffered(r.ev)}

\* two characters are the same letter, whatever their case
SameLetter(a, b) ==
    \/ a = b
    \/ <<a, b>> \in {<<"A", "a">>, <<"B", "b">>, <<"C", "c">>, <<"G", "g">>,
                     <<"N", "n">>}
    \/ <<b, a>> \in {<<"A", "a">>, <<"B", "b">>, <<"C", "c">>, <<"G", "g">>,
                     <<"N", "n">>}

\* text occurs in s, letter by letter, whatever the case
OccursIn(text, s) ==
    \E at \in 0..(Len(s) - Len(text)) :
        \A j \in 1..Len(text) : SameLetter(s[at + j], text[j])

\* the filter without its sentinel and without the line-break that ends it
FilterText(filter) ==
    LET last == CHOOSE n \in 0..Len(filter) :
                    /\ \A j \in (n + 1)..Len(filter) : filter[j] = NL
                    /\ n > 0 => filter[n] # NL
    IN SubSeq(filter, 2, last)

\* the backing indices of the songs of pane that its filter accepts
Accepted(pane) ==
    {i \in 0..(Len(pane.songs) - 1) :
        \/ pane.filter = <<>>
        \/ OccursIn(FilterText(pane.filter), At(pane.songs, i).title)
        \/ OccursIn(FilterText(pane.filter), At(pane.songs, i).path)}

\* the backing indices of the visible sequence
Visible(pane) == {pane.shown.items[k] : k \in 1..Len(pane.shown.items)}

\* C17: the predicate of refresh_shown accepts a song iff the filter is
\* empty or its text, without the sentinel and the closing line-break,
\* occurs in the title or in the path whatever the case; a refresh makes
\* the visible sequence hold exactly the accepted songs, once each.
C17_FilterMatchesTitleOrPath ==
    /\ \A i \in 0..(Len(songs.songs) - 1) :
          FilterMatches(songs.filter, At(songs.songs, i)) <=> i \in Accepted(songs)
    /\ \A o \in {refresh_shown(songs)} :
          /\ Visible(o) = Accepted(songs)
          /\ Len(o.shown.items) = Cardinality(Accepted(songs))

\* C17 happens: over Banana, apple, Cherry the filter typed is /aN, and the
\* visible sequence is Banana alone
C17_Witness ==
    /\ Len(songs.songs) = 3
    /\ songs.filter = <<"/", "a", "N">>
    /\ songs.shown.items = <<0>>
    /\ At(songs.songs, 0).title = Banana
    /\ Accepted(songs) = {0}

\* the filter is being typed: it is not empty and no line-break ends it
Typing(pane) == pane.filter # <<>> /\ pane.filter[Len(pane.filter)] # NL

\* the runs of the keys the Songs pane can be given
SongsKeys == SongsDeliverable(SongsKeyRuns)

\* C18: the pane is in Insert mode iff its filter is not empty and does not
\* end in a line-break; '/' in normal mode starts the filter; while typing,
\* a character key extends the filter and Backspace removes its last
\* character; Enter while typing appends a line-break, after which the mode
\* is normal, the filter text is the one typed, the visible sequence is
\* the one shown before the key, and nothing is played.
C18_FilterModeAndEditing ==
    /\ SongsPane_mode(songs) = "Insert" <=> Typing(songs)
    /\ \A r \in SongsKeys : \A o \in {SongsOutcome(r.ev, r.io)} :
          /\ (~Typing(songs) /\ IsChar(r.ev, "/")) =>
                 o.songs.filter = <<"/">> /\ SongsPane_mode(o.songs) = "Insert"
          /\ (Typing(songs) /\ r.ev.code = "Char") =>
                 o.songs.filter = songs.filter \o <<r.ev.ch>>
          /\ (Typing(songs) /\ r.ev.code = "Backspace") =>
                 o.songs.filter \o <<songs.filter[Len(songs.filter)]>> = songs.filter
          /\ (Typing(songs) /\ r.ev.code = "Enter") =>
                 /\ o.songs.filter = songs.filter \o <<NL>>
                 /\ SongsPane_mode(o.songs) = "Normal"
                 /\ o.songs.shown.items = songs.shown.items
                 /\ o.calls = <<>>

\* C19: Escape given to the Songs pane, while the filter is typed and in
\* normal mode alike, leaves the filter empty, the mode normal, and every
\* song of the backing collection in the visible sequence, once.
C19_EscapeClearsFilter ==
    \A r \in SongsKeys : \A o \in {SongsOutcome(r.ev, r.io)} :
        r.ev.code = "Esc" =>
            /\ o.songs.filter = <<>>
            /\ SongsPane_mode(o.songs) = "Normal"
            /\ Visible(o.songs) = 0..(Len(songs.songs) - 1)
            /\ Len(o.songs.shown.items) = Len(songs.songs)
            /\ o.songs.songs = songs.songs

\* C19 happens: a filter closed with Enter hides songs in normal mode, and
\* Escape shows them all again
C19_Witness ==
    /\ Len(songs.filter) > 2
    /\ songs.filter[Len(songs.filter)] = NL
    /\ Len(songs.shown.items) < Len(songs.songs)
    /\ \E r \in SongsKeys : \E o \in {SongsOutcome(r.ev, r.io)} :
          /\ r.ev.code = "Esc"
          /\ o.songs.filter = <<>>
          /\ Len(o.songs.shown.items) = Len(songs.songs)

\* C20: update_from_playlist replaces the backing collection by the
\* playlist's songs, empties the filter, makes the visible sequence hold
\* every song once, and sets the cursor to the previous cursor position if
\* that is within the new visible sequence, else to the first element if
\* there is one, else to None.
C20_ReloadKeepsCursorInRange ==
    \A o \in {update_from_playlist(songs, store, songs.title)} :
        LET previous == songs.shown.selected
        IN /\ o.songs = StoreSongs(store, songs.title)
           /\ o.filter = <<>>
           /\ Visible(o) = 0..(Len(o.songs) - 1)
           /\ Len(o.shown.items) = Len(o.songs)
           /\ o.shown.selected =
                 IF previous # None /\ previous[1] < Len(o.shown.items)
                 THEN previous
                 ELSE IF o.shown.items # <<>> THEN Some(0) ELSE None

\* C20 happens: the playlist has lost a song since the pane was loaded, a
\* filter is set and the cursor is on the second line; the reload keeps the
\* cursor there
C20_Witness ==
    /\ songs.songs # StoreSongs(store, songs.title)
    /\ songs.filter # <<>>
    /\ songs.shown.selected = Some(1)
    /\ \E o \in {update_from_playlist(songs, store, songs.title)} :
          /\ o.shown.selected = Some(1)
          /\ o.filter = <<>>
          /\ Len(o.songs) = 2

\* the playlist file of the pane's songs with the song at backing index k
\* removed
WithoutSong(k) == StorePut(store, songs.title, RemoveAt(songs.songs, k))

\* C21: when a song other than the selected one is removed from the
\* playlist and the pane is reloaded, the cursor selects the same song as
\* before the reload.
C21_ReloadFollowsSelectedSong ==
    \A k \in 0..(Len(songs.songs) - 1) :
        \A o \in {update_from_playlist(songs, WithoutSong(k), songs.title)} :
            (selected_index(songs) # None /\ selected_index(songs) # Some(k)) =>
                SongsPane_selected_item(o) = SongsPane_selected_item(songs)

\* the runs of the commands the Songs pane can be given
SongsCommands == SongsDeliverable(SongsCommandRuns)

\* the backing index of the neighbour a swap command exchanges index i with
Neighbour(cmd, i) == IF cmd = "SwapSongUp" THEN i - 1 ELSE i + 1

\* C22: with no filter, under every sorting method, a successful SwapSongUp
\* or SwapSongDown exchanges the selected song with its neighbour in the
\* backing collection and in the playlist file, and the cursor then selects
\* the song it selected before; with a filter the swap commands change
\* nothing.
C22_SwapFollowsSong ==
    \A r \in SongsCommands : \A o \in {SongsOutcome(r.ev, r.io)} :
        r.ev.code \in {"SwapSongUp", "SwapSongDown"} =>
            /\ \A sel \in {selected_index(songs)} \ {None} :
                  \A other \in {Neighbour(r.ev.code, sel[1])} :
                     ( /\ songs.filter = <<>>
                       /\ StoreSongs(store, songs.title) = songs.songs
                       /\ InRange(songs.songs, other)
                       /\ o.result = "Ok" ) =>
                         /\ o.songs.songs = SwapAt(songs.songs, sel[1], other)
                         /\ StoreSongs(o.store, songs.title) = o.songs.songs
                         /\ SongsPane_selected_item(o.songs) =
                               SongsPane_selected_item(songs)
            /\ songs.filter # <<>> =>
                  o.songs = songs /\ o.store = store /\ o.calls = <<>>

\* the cursor is None or a line of the visible sequence
CursorInVisible(pane) ==
    \/ pane.shown.selected = None
    \/ InRange(pane.shown.items, pane.shown.selected[1])

\* the runs of the mouse events the Songs pane can be given
SongsClicks == SongsDeliverable(SongsMouseRuns)

\* C23: after every sequence of events the Songs pane handles, the cursor
\* is None or a valid index into the visible sequence, and it is None when
\* the visible sequence is empty.
C23_CursorInVisibleSequence ==
    /\ CursorInVisible(songs)
    /\ songs.shown.items = <<>> => songs.shown.selected = None

\* C23 happens: a filter hides songs, the cursor is on the last visible
\* line, and a click below the list leaves it there
C23_Witness ==
    /\ songs.filter # <<>>
    /\ songs.shown.items # <<>>
    /\ Len(songs.shown.items) < Len(songs.songs)
    /\ songs.shown.selected = Some(Len(songs.shown.items) - 1)
    /\ \E r \in SongsClicks : \E o \in {SongsOutcome(r.ev, r.io)} :
          /\ r.ev.code = "Down"
          /\ r.ev.row - ClickTop >= Len(songs.shown.items)
          /\ o.songs.shown.selected = songs.shown.selected

\* the visible sequence is in the order of the sorting method, songs that
\* compare equal in the order of the backing collection
Ordered(pane) ==
    \A a \in 1..Len(pane.shown.items) : \A b \in (a + 1)..Len(pane.shown.items) :
        \A x \in {pane.shown.items[a]} : \A y \in {pane.shown.items[b]} :
            /\ InRange(pane.songs, x) /\ InRange(pane.songs, y)
            /\ \/ compare_songs(At(pane.songs, x), At(pane.songs, y), pane.shown.sorting)
               \/ /\ ~compare_songs(At(pane.songs, y), At(pane.songs, x), pane.shown.sorting)
                  /\ x < y

\* C24: after every event the Songs pane handles, the visible sequence
\* holds exactly the backing indices of the songs that match the filter,
\* in the order of the sorting method, stable on ties.
C24_VisibleMatchesFilterAndSort ==
    /\ Visible(songs) = Accepted(songs)
    /\ Len(songs.shown.items) = Cardinality(Accepted(songs))
    /\ Ordered(songs)

\* C25: in every reachable state of the screen and for every event,
\* handle_modal_message is called (a modal has returned a message) only
\* while the focus is Modal(_), so its panic branch is never taken.
C25_ModalMessageOnlyUnderModal ==
    \A r \in Runs : \A o \in {Outcome(r.ev, r.io)} :
        o.msg # "None" => IsModal(selected_pane)

\* C25 happens: a modal has the focus and an event makes it return the
\* message that closes it, which handle_modal_message resolves
C25_Witness ==
    /\ IsModal(selected_pane)
    /\ \E r \in Runs : \E o \in {Outcome(r.ev, r.io)} :
          /\ o.msg = "Commit"
          /\ o.result = "Ok"
          /\ ~IsModal(o.selected_pane)

\* the cursor is on the song at the end of the backing collection that a
\* swap command would move a song beyond
AtTheEdge(cmd) ==
    \/ cmd = "SwapSongUp" /\ selected_index(songs) = Some(0)
    \/ cmd = "SwapSongDown" /\ selected_index(songs) = Some(Len(songs.songs) - 1)

\* C26: SwapSongUp with the cursor on the first song and SwapSongDown with
\* the cursor on the last song ask the playlist store for nothing, do not
\* fail on an index outside the backing collection, and leave the backing
\* collection and the cursor as they are.
C26_SwapAtTheEdgeIsInert ==
    \A r \in SongsCommands : \A o \in {SongsOutcome(r.ev, r.io)} :
        (songs.filter = <<>> /\ AtTheEdge(r.ev.code)) =>
            /\ o.calls = <<>>
            /\ o.result = "Ok"
            /\ o.store = store
            /\ o.songs = songs

\* C27: after every sequence of key events the filter of the Songs pane is
\* empty or begins with '/', and a line-break occurs in it at most once and
\* only as its last character.
C27_FilterWellFormed ==
    \/ songs.filter = <<>>
    \/ /\ songs.filter[1] = "/"
       /\ \A k \in 1..(Len(songs.filter) - 1) : songs.filter[k] # NL

\* C27 happens: a filter closed with Enter is given Enter and a character
\* again, and neither adds to it
C27_Witness ==
    /\ Len(songs.filter) > 2
    /\ songs.filter[Len(songs.filter)] = NL
    /\ \A r \in SongsKeys : \A o \in {SongsOutcome(r.ev, r.io)} :
          (r.ev.code = "Enter" \/ IsChar(r.ev, "a")) =>
              o.songs.filter = songs.filter

====
